---- MODULE Spec2Model ----
(***************************************************************************)
(* CUR forwarder (lambda/cur_forwarder.py) and the one-time partition      *)
(* bootstrap (scripts/bootstrap_partitions.py).                            *)
(*                                                                         *)
(* Strings of the program are sequences of one-character strings, so that  *)
(* split, startswith, endswith, strip and the regular expressions are      *)
(* computed character by character as Python computes them.                *)
(***************************************************************************)
EXTENDS Integers, Sequences, FiniteSets, TLC

(***************************************************************************)
(* Characters.  AsciiLow and AsciiHigh list the printable ASCII characters *)
(* in code-point order: codes 32..95 and 97..126 (the grave accent, code   *)
(* 96, cannot be written in a string here and is no character of the keys  *)
(* of the model).  S3 lists keys in UTF-8 binary order, which for these    *)
(* characters is that order.                                               *)
(***************************************************************************)
AsciiLow == <<
    " ","!","\"","#","$","%","&","'","(",")","*","+",",","-",".","/","0","1",
    "2","3","4","5","6","7","8","9",":",";","<","=",">","?","@","A","B","C",
    "D","E","F","G","H","I","J","K","L","M","N","O","P","Q","R","S","T","U",
    "V","W","X","Y","Z","[","\\","]","^","_" >>

AsciiHigh == <<
    "a","b","c","d","e","f","g","h","i","j","k","l","m","n","o","p","q","r",
    "s","t","u","v","w","x","y","z","{","|","}","~" >>

CharSet == {AsciiLow[i] : i \in 1..Len(AsciiLow)}
             \cup {AsciiHigh[i] : i \in 1..Len(AsciiHigh)} \cup {"\n"}

\* ord(c) for the characters of the model
OrdTable == [c \in CharSet |->
               IF c = "\n" THEN 10
               ELSE IF \E i \in 1..Len(AsciiLow) : AsciiLow[i] = c
                    THEN 31 + (CHOOSE i \in 1..Len(AsciiLow) : AsciiLow[i] = c)
                    ELSE 96 + (CHOOSE i \in 1..Len(AsciiHigh) : AsciiHigh[i] = c)]

Ord(c) == OrdTable[c]

\* the name that stands for the character of code point n when it has no
\* literal here
CodePointName(n) == "chr(" \o ToString(n) \o ")"

\* \d of a str pattern matches every Unicode decimal digit (category Nd),
\* not only 0-9.  Outside ASCII these come in runs of ten, one run per
\* script: the code points of the digit zero of each run (Unicode 14.0, the
\* table of Python 3.11).
DecimalDigitZeros == {
    1632, 1776, 1984, 2406, 2534, 2662, 2790, 2918, 3046, 3174, 3302, 3430,
    3558, 3664, 3792, 3872, 4160, 4240, 6112, 6160, 6470, 6608, 6784, 6800,
    6992, 7088, 7232, 7248, 42528, 43216, 43264, 43472, 43504, 43600, 44016,
    65296, 66720, 68912, 69734, 69872, 69942, 70096, 70384, 70736, 70864,
    71248, 71360, 71472, 71904, 72016, 72784, 73040, 73120, 92768, 92864,
    93008, 120782, 120792, 120802, 120812, 120822, 123200, 123632, 125264,
    130032 }

AsciiDigits == {"0","1","2","3","4","5","6","7","8","9"}

NonAsciiDigits ==
    {CodePointName(z + d) : z \in DecimalDigitZeros, d \in 0..9}

Digits == AsciiDigits \cup NonAsciiDigits

IsDigit(c) == c \in AsciiDigits \/ c \in NonAsciiDigits

(***************************************************************************)
(* Python str methods.                                                     *)
(***************************************************************************)
StartsWith(s, p) ==
    /\ Len(p) <= Len(s)
    /\ SubSeq(s, 1, Len(p)) = p

EndsWith(s, suf) ==
    /\ Len(suf) <= Len(s)
    /\ SubSeq(s, Len(s) - Len(suf) + 1, Len(s)) = suf

RECURSIVE LStrip(_, _)
LStrip(s, c) ==
    IF s # <<>> /\ Head(s) = c THEN LStrip(Tail(s), c) ELSE s

RECURSIVE RStrip(_, _)
RStrip(s, c) ==
    IF s # <<>> /\ s[Len(s)] = c THEN RStrip(SubSeq(s, 1, Len(s) - 1), c) ELSE s

\* s.split(sep) for a one-character separator: empty segments are kept.
RECURSIVE SplitFrom(_, _, _, _)
SplitFrom(s, sep, i, cur) ==
    IF i > Len(s) THEN <<cur>>
    ELSE IF s[i] = sep THEN <<cur>> \o SplitFrom(s, sep, i + 1, <<>>)
    ELSE SplitFrom(s, sep, i + 1, Append(cur, s[i]))

Split(s, sep) == SplitFrom(s, sep, 1, <<>>)

\* sep.join(parts)
RECURSIVE Join(_, _)
Join(parts, sep) ==
    IF parts = <<>> THEN <<>>
    ELSE IF Len(parts) = 1 THEN parts[1]
    ELSE parts[1] \o <<sep>> \o Join(Tail(parts), sep)

\* a < b for Python strings (and for the listing order of S3).
RECURSIVE StrLessFrom(_, _, _)
StrLessFrom(a, b, i) ==
    IF i > Len(b) THEN FALSE
    ELSE IF i > Len(a) THEN TRUE
    ELSE IF a[i] = b[i] THEN StrLessFrom(a, b, i + 1)
    ELSE Ord(a[i]) < Ord(b[i])

StrLess(a, b) == StrLessFrom(a, b, 1)

AllDigits(s, from, to) == \A i \in from..to : IsDigit(s[i])

(***************************************************************************)
(* Regular expressions.  re.match with a pattern ending in $ also accepts  *)
(* one trailing newline; fullmatch does not.                               *)
(***************************************************************************)
\* \d{8}T\d{6}Z, the whole string
FullMatchAssembly(s) ==
    /\ Len(s) = 16
    /\ AllDigits(s, 1, 8)
    /\ s[9] = "T"
    /\ AllDigits(s, 10, 15)
    /\ s[16] = "Z"

\* \d{8}-\d{8}, the whole string
FullMatchBillingPeriod(s) ==
    /\ Len(s) = 17
    /\ AllDigits(s, 1, 8)
    /\ s[9] = "-"
    /\ AllDigits(s, 10, 17)

DropNewline(s) ==
    IF s # <<>> /\ s[Len(s)] = "\n" THEN SubSeq(s, 1, Len(s) - 1) ELSE s

\* re.match(r'^\d{8}T\d{6}Z$', s)
MatchAssemblyId(s) == FullMatchAssembly(s) \/ FullMatchAssembly(DropNewline(s))

\* re.match(r'^\d{8}-\d{8}$', s)
MatchBillingPeriod(s) ==
    FullMatchBillingPeriod(s) \/ FullMatchBillingPeriod(DropNewline(s))

(***************************************************************************)
(* urllib.parse.unquote_plus: '+' becomes a space, then every run of %XX   *)
(* escapes (two hexadecimal digits each) is taken as bytes and decoded as  *)
(* UTF-8 with errors='replace'; a '%' not followed by two hexadecimal      *)
(* digits is kept.  A character that has no literal here (a control        *)
(* character other than tab, newline, form feed and carriage return, the   *)
(* grave accent, every character above code 126) is written by the name   *)
(* of its code point, "chr(96)", as one element of the string.             *)
(***************************************************************************)
HexDigits == <<"0","1","2","3","4","5","6","7","8","9","A","B","C","D","E","F">>

LowerHex == <<"0","1","2","3","4","5","6","7","8","9","a","b","c","d","e","f">>

IsHex(c) == \E i \in 1..16 : HexDigits[i] = c \/ LowerHex[i] = c

HexVal(c) == (CHOOSE i \in 1..16 : HexDigits[i] = c \/ LowerHex[i] = c) - 1

\* chr(n)
Chr(n) ==
    IF n = 10 THEN "\n"
    ELSE IF n >= 32 /\ n <= 95 THEN AsciiLow[n - 31]
    ELSE IF n >= 97 /\ n <= 126 THEN AsciiHigh[n - 96]
    ELSE IF n = 9 THEN "\t"
    ELSE IF n = 12 THEN "\f"
    ELSE IF n = 13 THEN "\r"
    ELSE CodePointName(n)

\* U+FFFD, what errors='replace' puts for bytes that are not UTF-8
ReplacementCharacter == Chr(65533)

\* the byte of the escape %XX that starts at position i, -1 without one
EscapeAt(s, i) ==
    IF i + 2 <= Len(s) /\ s[i] = "%" /\ IsHex(s[i + 1]) /\ IsHex(s[i + 2])
    THEN 16 * HexVal(s[i + 1]) + HexVal(s[i + 2])
    ELSE -1

\* UTF-8: the number of continuation bytes a lead byte announces (0 for a
\* byte that cannot lead: 80..C1 and F5..FF)
ContinuationBytes(lead) ==
    IF lead >= 194 /\ lead <= 223 THEN 1
    ELSE IF lead >= 224 /\ lead <= 239 THEN 2
    ELSE IF lead >= 240 /\ lead <= 244 THEN 3
    ELSE 0

\* UTF-8: the bytes allowed right after a lead byte (no overlong forms, no
\* surrogates, nothing above U+10FFFF)
SecondByteRange(lead) ==
    IF lead = 224 THEN 160..191
    ELSE IF lead = 237 THEN 128..159
    ELSE IF lead = 240 THEN 144..191
    ELSE IF lead = 244 THEN 128..143
    ELSE 128..191

\* how many of the escapes after the lead byte at position i continue its
\* sequence
ContinuationsAt(s, i, lead) ==
    LET k == ContinuationBytes(lead)
    IN  IF k = 0 \/ EscapeAt(s, i + 3) \notin SecondByteRange(lead) THEN 0
        ELSE IF k = 1 \/ EscapeAt(s, i + 6) \notin 128..191 THEN 1
        ELSE IF k = 2 \/ EscapeAt(s, i + 9) \notin 128..191 THEN 2
        ELSE 3

\* the code point of the complete sequence that starts at position i
CodePointAt(s, i, lead) ==
    LET k == ContinuationBytes(lead)
        c1 == EscapeAt(s, i + 3) - 128
        c2 == EscapeAt(s, i + 6) - 128
        c3 == EscapeAt(s, i + 9) - 128
    IN  IF k = 1 THEN (lead - 192) * 64 + c1
        ELSE IF k = 2 THEN (lead - 224) * 4096 + c1 * 64 + c2
        ELSE (lead - 240) * 262144 + c1 * 4096 + c2 * 64 + c3

RECURSIVE UnquoteFrom(_, _)
UnquoteFrom(s, i) ==
    IF i > Len(s) THEN <<>>
    ELSE IF s[i] = "+" THEN <<" ">> \o UnquoteFrom(s, i + 1)
    ELSE LET byte == EscapeAt(s, i)
             m == ContinuationsAt(s, i, byte)
         IN  IF byte < 0 THEN <<s[i]>> \o UnquoteFrom(s, i + 1)
             ELSE IF byte < 128
                  THEN <<Chr(byte)>> \o UnquoteFrom(s, i + 3)
             ELSE IF m > 0 /\ m = ContinuationBytes(byte)
                  THEN <<Chr(CodePointAt(s, i, byte))>>
                       \o UnquoteFrom(s, i + 3 * (m + 1))
             ELSE <<ReplacementCharacter>> \o UnquoteFrom(s, i + 3 * (m + 1))

unquote_plus(s) == UnquoteFrom(s, 1)

(***************************************************************************)
(* Configuration (environment of the Lambda, constants of the script).     *)
(***************************************************************************)
Slash == "/"

DESTINATION_BUCKET == <<"d","s","t">>

SourceBucket == <<"s","r","c">>

AcctPrefix == <<"a","c","c","t","/">>

\* PREFIX_MAPPING: source bucket -> prefix configuration
PREFIX_MAPPING ==
    [b \in {SourceBucket} |->
        [source_prefix |-> <<>>, destination_prefix |-> AcctPrefix]]

GLUE_DATABASE == "cur_database"

\* TABLE_MAPPING in declaration order: <<destination prefix, table name>>
TABLE_MAPPING == << <<AcctPrefix, "acct_table">> >>

\* ACCOUNTS of the bootstrap script, same shape
ACCOUNTS == TABLE_MAPPING

\* the bootstrap script scans the bucket the Lambda writes to
BUCKET == DESTINATION_BUCKET

CsvGz == <<".","c","s","v",".","g","z">>

ManifestJson == <<"M","a","n","i","f","e","s","t",".","j","s","o","n">>

S3Scheme == <<"s","3",":","/","/">>

\* f"s3://{bucket}/{key}"
S3Uri(bucket, key) == S3Scheme \o bucket \o <<Slash>> \o key

(***************************************************************************)
(* Path Mapper and Key Classifier.                                         *)
(***************************************************************************)
\* a variant that does not prepend a destination prefix the key starts with
calculate_destination_key_KeepPrefixed(source_key, prefix_config) ==
    LET source_prefix == prefix_config.source_prefix
        destination_prefix == prefix_config.destination_prefix
        relative_key ==
            IF source_prefix # <<>> /\ StartsWith(source_key, source_prefix)
            THEN LStrip(SubSeq(source_key, Len(source_prefix) + 1,
                               Len(source_key)), Slash)
            ELSE source_key
    IN  IF destination_prefix # <<>>
           /\ ~StartsWith(relative_key, destination_prefix)
        THEN RStrip(destination_prefix, Slash) \o <<Slash>> \o relative_key
        ELSE relative_key

calculate_destination_key(source_key, prefix_config) ==
    LET source_prefix == prefix_config.source_prefix
        destination_prefix == prefix_config.destination_prefix
        relative_key ==
            IF source_prefix # <<>> /\ StartsWith(source_key, source_prefix)
            THEN LStrip(SubSeq(source_key, Len(source_prefix) + 1,
                               Len(source_key)), Slash)
            ELSE source_key
    IN  IF destination_prefix # <<>>
        THEN RStrip(destination_prefix, Slash) \o <<Slash>> \o relative_key
        ELSE relative_key

\* a variant that accepts a manifest in any folder deep enough
is_assembly_manifest_AnyFolder(key) ==
    IF ~EndsWith(key, ManifestJson) THEN FALSE
    ELSE Len(Split(key, Slash)) >= 3

is_assembly_manifest(key) ==
    IF ~EndsWith(key, ManifestJson) THEN FALSE
    ELSE LET parts == Split(key, Slash)
         IN  IF Len(parts) < 3 THEN FALSE
             ELSE MatchAssemblyId(parts[Len(parts) - 1])

is_assembly_data_file(key) ==
    IF ~EndsWith(key, CsvGz) THEN FALSE
    ELSE LET parts == Split(key, Slash)
         IN  IF Len(parts) < 3 THEN FALSE
             ELSE MatchAssemblyId(parts[Len(parts) - 1])

\* resolve_table_name: the first prefix of the mapping the key starts with;
\* "" stands for None (the caller tests "if not table_name").
RECURSIVE ResolveFrom(_, _, _)
ResolveFrom(mapping, key, i) ==
    IF i > Len(mapping) THEN ""
    ELSE IF StartsWith(key, mapping[i][1]) THEN mapping[i][2]
    ELSE ResolveFrom(mapping, key, i + 1)

resolve_table_name(key) == ResolveFrom(TABLE_MAPPING, key, 1)

\* prefix_config of process_record: the mapping's entry, or the defaults
PrefixConfigFor(source_bucket) ==
    IF source_bucket \in DOMAIN PREFIX_MAPPING
    THEN PREFIX_MAPPING[source_bucket]
    ELSE [source_prefix |-> <<>>, destination_prefix |-> <<>>]

(***************************************************************************)
(* update_athena_partition, the part before any service call: the billing  *)
(* period is the first segment matching the pattern, the assembly folder   *)
(* is the path up to and including the segment after it.                   *)
(***************************************************************************)
\* index (from 1) of the first segment matching the billing period, or 0
RECURSIVE FirstBillingPeriod(_, _)
FirstBillingPeriod(parts, i) ==
    IF i > Len(parts) THEN 0
    ELSE IF MatchBillingPeriod(parts[i]) THEN i
    ELSE FirstBillingPeriod(parts, i + 1)

\* a variant that lists the billing period folder instead of the assembly
\* folder
ParsePartitionKey_PeriodPrefix(bucket, manifest_key) ==
    LET parts == Split(manifest_key, Slash)
        j == FirstBillingPeriod(parts, 1)
    IN  IF j = 0 \/ parts[j] = <<>> \/ j + 1 > Len(parts)
        THEN [ok |-> FALSE]
        ELSE LET partition_path == Join(SubSeq(parts, 1, j + 1), Slash)
             IN  [ok |-> TRUE,
                  billing_period |-> parts[j],
                  partition_location |->
                      S3Uri(bucket, partition_path) \o <<Slash>>,
                  assembly_prefix |->
                      Join(SubSeq(parts, 1, j), Slash) \o <<Slash>>]

ParsePartitionKey(bucket, manifest_key) ==
    LET parts == Split(manifest_key, Slash)
        j == FirstBillingPeriod(parts, 1)
    IN  IF j = 0 \/ parts[j] = <<>> \/ j + 1 > Len(parts)
        THEN [ok |-> FALSE]
        ELSE LET partition_path == Join(SubSeq(parts, 1, j + 1), Slash)
             IN  [ok |-> TRUE,
                  billing_period |-> parts[j],
                  partition_location |->
                      S3Uri(bucket, partition_path) \o <<Slash>>,
                  assembly_prefix |-> partition_path \o <<Slash>>]

(***************************************************************************)
(* S3 list_objects_v2(Prefix, MaxKeys): the first MaxKeys keys, in key     *)
(* order, among the objects whose key starts with the prefix.  Keys that   *)
(* share the prefix are compared from the first character after it.        *)
(***************************************************************************)
MaxKeys == 20

ListObjectsV2(objects, prefix, max_keys) ==
    LET under == {k \in objects : StartsWith(k, prefix)}
    IN  IF Cardinality(under) <= max_keys THEN under
        ELSE {k \in under :
                Cardinality({j \in under :
                    StrLessFrom(j, k, Len(prefix) + 1)}) < max_keys}

\* data_files of update_athena_partition, given the listing's Contents
DataFilesIn(contents) == {k \in contents : EndsWith(k, CsvGz)}

\* the gate: the listing of the assembly folder, filtered
GateDataFiles(objects, assembly_prefix) ==
    DataFilesIn(ListObjectsV2(objects, assembly_prefix, MaxKeys))

(***************************************************************************)
(* The objects and events of the model.                                    *)
(***************************************************************************)
BP1 == <<"2","0","2","4","0","1","0","1","-","2","0","2","4","0","2","0","1">>

A1 == <<"2","0","2","4","0","1","1","0","T","1","2","0","0","0","0","Z">>

A2 == <<"2","0","2","4","0","1","1","5","T","1","2","0","0","0","0","Z">>

P1 == <<"p","1",".","c","s","v",".","g","z">>

P2 == <<"p","2",".","c","s","v",".","g","z">>

P9 == <<"p","9",".","c","s","v",".","g","z">>

RManifest == <<"r","-","M","a","n","i","f","e","s","t",".","j","s","o","n">>

\* the same name as an event carries it, percent-encoded
RManifestQuoted ==
    <<"r","%","2","D","M","a","n","i","f","e","s","t",".","j","s","o","n">>

Path2(a, b) == a \o <<Slash>> \o b

Path3(a, b, c) == a \o <<Slash>> \o b \o <<Slash>> \o c

K_A1_P1 == Path3(BP1, A1, P1)

K_A1_P9 == Path3(BP1, A1, P9)

K_A2_P1 == Path3(BP1, A2, P1)

K_A2_P2 == Path3(BP1, A2, P2)

K_A2_M == Path3(BP1, A2, RManifest)

K_A1_M == Path3(BP1, A1, RManifest)

Part1 == <<"p","a","r","t","-","1",".","c","s","v",".","g","z">>

K_Acct_A2_Part1 == AcctPrefix \o Path3(BP1, A2, Part1)

K_Top_M == Path2(BP1, RManifest)

\* objects of the source bucket (K_A1_P9 was deleted before its event is
\* handled: its copy answers NoSuchKey)
SourceObjects ==
    {K_A1_P1, K_A2_P1, K_A2_P2, K_A2_M, K_A1_M, K_Top_M, K_Acct_A2_Part1}

\* reportKeys of the manifests of the source bucket whose body is a JSON
\* object
ReportKeys == [m \in {K_A2_M} |-> <<K_A2_P1, K_A2_P2>>]

\* the manifests of the source bucket whose body is JSON but no object (a
\* list): json.loads answers, and manifest.get raises AttributeError
NonObjectManifests == {K_A1_M}

DirectRecord(quoted_key) ==
    [sns |-> FALSE, bucket |-> SourceBucket, key |-> quoted_key]

\* an SNS record whose Message holds S3 records for these keys
SnsRecord(quoted_keys) ==
    [sns |-> TRUE, bucket |-> SourceBucket, keys |-> quoted_keys]

\* the events (batches of records) a handler invocation can receive
\* the event of an object written under the folder acct/ of the source
\* bucket
ScenarioA == << DirectRecord(K_Acct_A2_Part1) >>

Events == <<
    << DirectRecord(K_A1_P1) >>,
    << DirectRecord(K_A2_P1) >>,
    << SnsRecord(<<K_A1_P9, K_A2_P1>>) >>,
    << DirectRecord(Path2(BP1, RManifestQuoted)), SnsRecord(<<K_A2_M>>) >>,
    ScenarioA,
    << SnsRecord(<<K_A1_M, K_A1_P1>>) >> >>

\* number of items (S3 records, direct or inside an SNS message) of an event
RECURSIVE ItemCount(_)
ItemCount(records) ==
    IF records = <<>> THEN 0
    ELSE (IF Head(records).sns THEN Len(Head(records).keys) ELSE 1)
         + ItemCount(Tail(records))

Workers == {1, 2}

MaxInvocations == 2

MaxFaults == 1

(***************************************************************************)
(* State.                                                                  *)
(***************************************************************************)
VARIABLES
    dest,        \* keys of the objects of the destination bucket
    table,       \* the Glue table definition
    partitions,  \* the table's partitions: billing period -> partition
    inv,         \* per worker: the handler invocation it runs
    started,     \* handler invocations started so far
    faults,      \* service faults injected so far
    sweep,       \* the bootstrap script's run
    offered,     \* the events (indexes of Events) that are delivered
    probe        \* one evaluation of the key functions on a key and a rule

vars == <<dest, table, partitions, inv, started, faults, sweep, offered,
          probe>>

TableLocation == S3Uri(DESTINATION_BUCKET, <<"a","c","c","t">>) \o <<Slash>>

ItemBlank ==
    [source_bucket |-> <<>>, source_key |-> <<>>, destination_key |-> <<>>,
     report_keys |-> <<>>, idx |-> 0, copied |-> <<>>,
     part |-> [ok |-> FALSE], table_name |-> "",
     partition_input |-> [Values |-> <<>>]]

Idle ==
    [pc |-> "idle", event |-> 0, records |-> <<>>, inner |-> <<>>,
     processed_files |-> <<>>, errors |-> <<>>, item |-> 0, raised |-> 0,
     calls |-> <<>>, result |-> <<>>, loc |-> ItemBlank]

Log(st, entry) ==
    [st EXCEPT !.calls = Append(@, entry @@ [item |-> st.item])]

(***************************************************************************)
(* handler: the loop over the records, and process_record up to its first  *)
(* service call.                                                           *)
(***************************************************************************)
\* a variant that copies every object, manifests included
BeginItem_AlwaysCopy(st, bucket, quoted_key) ==
    LET source_key == unquote_plus(quoted_key)
        prefix_config == PrefixConfigFor(bucket)
        destination_key == calculate_destination_key(source_key, prefix_config)
    IN  [st EXCEPT
            !.item = @ + 1,
            !.loc = [ItemBlank EXCEPT !.source_bucket = bucket,
                                      !.source_key = source_key,
                                      !.destination_key = destination_key],
            !.pc = "copy"]

\* process_record, lines 93-117: decode the key, map it, choose the copy path
BeginItem(st, bucket, quoted_key) ==
    LET source_key == unquote_plus(quoted_key)
        prefix_config == PrefixConfigFor(bucket)
        destination_key == calculate_destination_key(source_key, prefix_config)
    IN  [st EXCEPT
            !.item = @ + 1,
            !.loc = [ItemBlank EXCEPT !.source_bucket = bucket,
                                      !.source_key = source_key,
                                      !.destination_key = destination_key],
            !.pc = IF is_assembly_manifest(destination_key)
                   THEN "get_manifest" ELSE "copy"]

\* a variant that reports success whenever a file was processed
Response_OkWhenAnyProcessed(st) ==
    LET r == [statusCode |-> IF st.errors = <<>> \/ st.processed_files # <<>>
                             THEN 200 ELSE 207,
              processed |-> Len(st.processed_files),
              errors |-> Len(st.errors),
              files |-> st.processed_files]
    IN  IF st.errors # <<>> THEN r @@ [error_details |-> st.errors] ELSE r

\* the response of handler (lines 77-88)
Response(st) ==
    LET r == [statusCode |-> IF st.errors = <<>> THEN 200 ELSE 207,
              processed |-> Len(st.processed_files),
              errors |-> Len(st.errors),
              files |-> st.processed_files]
    IN  IF st.errors # <<>> THEN r @@ [error_details |-> st.errors] ELSE r

\* the for loops of handler: the next item of the current record, else the
\* next record, else the response
RECURSIVE Advance(_)
Advance(st) ==
    IF st.inner # <<>>
    THEN BeginItem(st, Head(st.inner)[1], Head(st.inner)[2])
    ELSE IF st.records = <<>>
    THEN [st EXCEPT !.pc = "done", !.loc = ItemBlank,
                    !.result = Response(st)]
    ELSE LET r == Head(st.records)
             items == IF r.sns
                      THEN [i \in 1..Len(r.keys) |-> <<r.bucket, r.keys[i]>>]
                      ELSE << <<r.bucket, r.key>> >>
         IN  Advance([st EXCEPT !.records = Tail(@), !.inner = items,
                                !.loc = ItemBlank])

\* process_record returns its result (lines 138-144)
FinishItem(st) ==
    LET base == [source |-> S3Uri(st.loc.source_bucket, st.loc.source_key),
                 destination |->
                     S3Uri(DESTINATION_BUCKET, st.loc.destination_key)]
        result == IF st.loc.copied # <<>>
                  THEN base @@ [copied_data_files |-> Len(st.loc.copied)]
                  ELSE base
    IN  [st EXCEPT !.pc = "returned", !.result = result]

\* an exception leaves process_record
RaiseItem(st, cause) ==
    [st EXCEPT !.pc = "raised",
               !.raised = @ + 1,
               !.result = [msg |-> "Error processing record",
                           cause |-> cause]]

\* handler appends the result and goes on with the next item (lines 65-66,
\* 70-71), or its except clause records the error and goes on with the
\* next record (lines 72-75)
AfterItem(st) ==
    IF st.pc = "returned"
    THEN Advance([st EXCEPT !.processed_files = Append(@, st.result),
                            !.inner = Tail(@), !.calls = <<>>,
                            !.result = <<>>])
    ELSE Advance([st EXCEPT !.errors = Append(@, st.result),
                            !.inner = <<>>, !.calls = <<>>,
                            !.result = <<>>])

\* a variant that starts the partition update for every key
AfterCopy_AlwaysUpdate(st) ==
    LET dk == st.loc.destination_key
        table_name == resolve_table_name(dk)
        part == ParsePartitionKey(DESTINATION_BUCKET, dk)
    IN  IF table_name = "" \/ ~part.ok
        THEN FinishItem(st)
        ELSE [st EXCEPT !.pc = "list", !.loc.part = part,
                        !.loc.table_name = table_name]

\* process_record, lines 119-136, and update_athena_partition up to its
\* listing: which keys lead to a partition update
AfterCopy(st) ==
    LET dk == st.loc.destination_key
        partition_key ==
            IF GLUE_DATABASE # ""
               /\ (is_assembly_manifest(dk) \/ is_assembly_data_file(dk))
            THEN dk ELSE <<>>
        table_name == resolve_table_name(partition_key)
        part == ParsePartitionKey(DESTINATION_BUCKET, partition_key)
    IN  IF partition_key = <<>> \/ table_name = "" \/ ~part.ok
        THEN FinishItem(st)
        ELSE [st EXCEPT !.pc = "list", !.loc.part = part,
                        !.loc.table_name = table_name]

(***************************************************************************)
(* Service calls.  Every call of S3 or Glue is one step of the worker that *)
(* makes it; a call can fail by an injected fault while faults remain.     *)
(***************************************************************************)
FaultChoices == IF faults < MaxFaults THEN {FALSE, TRUE} ELSE {FALSE}

Charge(fault) == faults' = IF fault THEN faults + 1 ELSE faults

SetInv(w, st) == inv' = [inv EXCEPT ![w] = st]

PartitionKey(table_name, billing_period) == <<table_name, billing_period>>

\* the destination key of the report key the expansion is at
CurrentReportKey(st) == st.loc.report_keys[st.loc.idx]

CurrentDestKey(st) ==
    calculate_destination_key(CurrentReportKey(st),
                              PrefixConfigFor(st.loc.source_bucket))

\* the for loop of copy_manifest_data_files: next report key, or return
NextReportKey(st) ==
    IF st.loc.idx < Len(st.loc.report_keys)
    THEN [st EXCEPT !.pc = "head", !.loc.idx = @ + 1]
    ELSE AfterCopy(st)

\* a variant that copies a report key even when the probe found it
AfterHead_AlwaysCopy(logged, res, dest_key) ==
    CASE res \in {"found", "not_found", "client_error"} ->
           [logged EXCEPT !.pc = "copy_data"]
      [] res = "transport" -> RaiseItem(logged, "head_object")

\* lines 219-225: what follows the answer of head_object
AfterHead(logged, res, dest_key) ==
    CASE res = "found" ->
           NextReportKey([logged EXCEPT !.loc.copied = Append(@, dest_key)])
      [] res \in {"not_found", "client_error"} ->
           [logged EXCEPT !.pc = "copy_data"]
      [] res = "transport" -> RaiseItem(logged, "head_object")

\* a variant in which a failed copy ends the expansion with the exception
AfterDataCopy_Abort(logged, ok, dest_key) ==
    IF ok
    THEN NextReportKey([logged EXCEPT !.loc.copied = Append(@, dest_key)])
    ELSE RaiseItem(logged, "copy_object")

\* lines 228-232: what follows the copy of one report key
AfterDataCopy(logged, ok, dest_key) ==
    NextReportKey(IF ok
                  THEN [logged EXCEPT !.loc.copied = Append(@, dest_key)]
                  ELSE logged)

\* a variant that goes on to the catalog whatever the listing returned
AfterListing_NoGate(logged, fault, data_files) ==
    IF fault THEN FinishItem(logged)
    ELSE [logged EXCEPT !.pc = "get_table"]

\* a variant in which an exception of the listing leaves process_record
AfterListing_Propagate(logged, fault, data_files) ==
    IF fault THEN RaiseItem(logged, "list_objects_v2")
    ELSE IF data_files = {} THEN FinishItem(logged)
    ELSE [logged EXCEPT !.pc = "get_table"]

\* lines 321-326: the gate; an exception of the listing is caught by
\* process_record (lines 134-136)
AfterListing(logged, fault, data_files) ==
    IF fault \/ data_files = {} THEN FinishItem(logged)
    ELSE [logged EXCEPT !.pc = "get_table"]

\* handler is invoked with one of the events, in the first free worker
Free(w) == inv[w].pc \in {"idle", "done"}

\* the locals of handler when it reaches the first service call of an event
Entered ==
    [e \in 1..Len(Events) |->
        Advance([Idle EXCEPT !.event = e, !.records = Events[e]])]

Invoke(w, e) ==
    /\ Free(w)
    /\ \A v \in Workers : Free(v) => w <= v
    /\ started < MaxInvocations
    /\ e \in offered
    /\ started' = started + 1
    /\ SetInv(w, Entered[e])
    /\ UNCHANGED <<dest, table, partitions, faults, sweep, offered, probe>>

\* handler takes the outcome of process_record and loops
Loop(w) ==
    /\ inv[w].pc \in {"returned", "raised"}
    /\ SetInv(w, AfterItem(inv[w]))
    /\ UNCHANGED <<dest, table, partitions, started, faults, sweep, offered, probe>>

\* copy_object of a plain file or a data file (process_record line 117)
CopyPlain(w) ==
    /\ inv[w].pc = "copy"
    /\ \E fault \in FaultChoices :
         LET st == inv[w]
             ok == ~fault /\ st.loc.source_key \in SourceObjects
             entry == [op |-> "copy_object", src |-> st.loc.source_key,
                       key |-> st.loc.destination_key,
                       res |-> IF ok THEN "ok" ELSE "error"]
         IN  /\ Charge(fault)
             /\ dest' = IF ok THEN dest \cup {st.loc.destination_key} ELSE dest
             /\ SetInv(w, IF ok THEN AfterCopy(Log(st, entry))
                          ELSE RaiseItem(Log(st, entry), "copy_object"))
    /\ UNCHANGED <<table, partitions, started, sweep, offered, probe>>

\* get_object and json.loads of the manifest, and the reading of its
\* reportKeys (lines 198-208); the entry of the call log also notes which of
\* the referenced files the destination bucket held at that moment.  A
\* manifest that cannot be fetched or parsed yields no report keys (lines
\* 201-203); on a manifest that is no JSON object line 205 raises, outside
\* the try, and the exception leaves process_record.
GetManifest(w) ==
    /\ inv[w].pc = "get_manifest"
    /\ \E fault \in FaultChoices :
         LET st == inv[w]
             fetched == ~fault /\ st.loc.source_key \in SourceObjects
             no_object == fetched /\ st.loc.source_key \in NonObjectManifests
             ok == fetched /\ st.loc.source_key \in DOMAIN ReportKeys
             report_keys == IF ok THEN ReportKeys[st.loc.source_key] ELSE <<>>
             entry == [op |-> "get_object", key |-> st.loc.source_key,
                       res |-> IF ok \/ no_object THEN "ok" ELSE "error",
                       present |-> {k \in dest : \E i \in 1..Len(report_keys) :
                                      k = calculate_destination_key(
                                            report_keys[i],
                                            PrefixConfigFor(
                                                st.loc.source_bucket))}]
             logged == Log(st, entry)
         IN  /\ Charge(fault)
             /\ SetInv(w, IF no_object THEN RaiseItem(logged, "manifest.get")
                          ELSE IF report_keys = <<>> THEN AfterCopy(logged)
                          ELSE [logged EXCEPT !.pc = "head",
                                              !.loc.report_keys = report_keys,
                                              !.loc.idx = 1])
    /\ UNCHANGED <<dest, table, partitions, started, sweep, offered, probe>>

\* head_object of one report key at the destination (lines 218-225)
HeadObject(w) ==
    /\ inv[w].pc = "head"
    /\ \E outcome \in {"natural"} \cup
                      (IF faults < MaxFaults
                       THEN {"client_error", "transport"} ELSE {}) :
         LET st == inv[w]
             dest_key == CurrentDestKey(st)
             res == IF outcome # "natural" THEN outcome
                    ELSE IF dest_key \in dest THEN "found" ELSE "not_found"
             logged == Log(st, [op |-> "head_object", key |-> dest_key,
                                res |-> res])
         IN  /\ Charge(outcome # "natural")
             /\ SetInv(w, AfterHead(logged, res, dest_key))
    /\ UNCHANGED <<dest, table, partitions, started, sweep, offered, probe>>

\* copy_object of one report key (lines 227-232)
CopyDataFile(w) ==
    /\ inv[w].pc = "copy_data"
    /\ \E fault \in FaultChoices :
         LET st == inv[w]
             dest_key == CurrentDestKey(st)
             ok == ~fault /\ CurrentReportKey(st) \in SourceObjects
             logged == Log(st, [op |-> "copy_object",
                                src |-> CurrentReportKey(st),
                                key |-> dest_key,
                                res |-> IF ok THEN "ok" ELSE "error"])
         IN  /\ Charge(fault)
             /\ dest' = IF ok THEN dest \cup {dest_key} ELSE dest
             /\ SetInv(w, AfterDataCopy(logged, ok, dest_key))
    /\ UNCHANGED <<table, partitions, started, sweep, offered, probe>>

\* the gate: list_objects_v2 of the assembly folder (lines 313-326)
ListAssembly(w) ==
    /\ inv[w].pc = "list"
    /\ \E fault \in FaultChoices :
         LET st == inv[w]
             data_files ==
                 IF fault THEN {}
                 ELSE GateDataFiles(dest, st.loc.part.assembly_prefix)
             logged == Log(st, [op |-> "list_objects_v2",
                                key |-> st.loc.part.assembly_prefix,
                                res |-> IF fault THEN "error" ELSE "ok",
                                data_files |-> data_files])
         IN  /\ Charge(fault)
             /\ SetInv(w, AfterListing(logged, fault, data_files))
    /\ UNCHANGED <<dest, table, partitions, started, sweep, offered, probe>>

\* a variant that leaves the location of the table in the descriptor
PartitionInput_TableLocation(table_def, billing_period, location) ==
    [Values |-> <<billing_period>>,
     StorageDescriptor |-> table_def.StorageDescriptor]

\* get_table, and the partition input built from it (lines 334-344)
PartitionInput(table_def, billing_period, location) ==
    [Values |-> <<billing_period>>,
     StorageDescriptor |->
         [table_def.StorageDescriptor EXCEPT !.Location = location]]

GetTable(w) ==
    /\ inv[w].pc = "get_table"
    /\ \E fault \in FaultChoices :
         LET st == inv[w]
             logged == Log(st, [op |-> "get_table", key |-> st.loc.table_name,
                                res |-> IF fault THEN "error" ELSE "ok"])
         IN  /\ Charge(fault)
             /\ SetInv(w, IF fault THEN FinishItem(logged)
                          ELSE [logged EXCEPT
                                  !.pc = "update",
                                  !.loc.partition_input =
                                      PartitionInput(table,
                                          st.loc.part.billing_period,
                                          st.loc.part.partition_location)])
    /\ UNCHANGED <<dest, table, partitions, started, sweep, offered, probe>>

\* a variant that creates the partition after any failure of the update
AfterUpdate_CreateOnAnyError(logged, res) ==
    IF res \in {"not_found", "error"}
    THEN [logged EXCEPT !.pc = "create"]
    ELSE FinishItem(logged)

\* lines 355-364: only EntityNotFoundException leads to create_partition;
\* any other exception is raised again, and caught by process_record
AfterUpdate(logged, res) ==
    IF res = "not_found"
    THEN [logged EXCEPT !.pc = "create"]
    ELSE FinishItem(logged)

\* update_partition (lines 347-356)
UpdatePartition(w) ==
    /\ inv[w].pc = "update"
    /\ \E fault \in FaultChoices :
         LET st == inv[w]
             pk == PartitionKey(st.loc.table_name, st.loc.part.billing_period)
             res == IF fault THEN "error"
                    ELSE IF pk \in DOMAIN partitions THEN "ok"
                    ELSE "not_found"
             logged == Log(st, [op |-> "update_partition", key |-> pk,
                                res |-> res,
                                input |-> st.loc.partition_input])
         IN  /\ Charge(fault)
             /\ partitions' =
                  IF res = "ok"
                  THEN [partitions EXCEPT ![pk] = st.loc.partition_input]
                  ELSE partitions
             /\ SetInv(w, AfterUpdate(logged, res))
    /\ UNCHANGED <<dest, table, started, sweep, offered, probe>>

\* a variant in which the exception of a refused create leaves
\* process_record
AfterCreate_RaiseOnConflict(logged, res) ==
    IF res = "already_exists" THEN RaiseItem(logged, "create_partition")
    ELSE FinishItem(logged)

\* lines 357-362 and 131-136: whatever create_partition answers, the item
\* returns; its exception is caught by process_record
AfterCreate(logged, res) == FinishItem(logged)

\* create_partition after EntityNotFoundException (lines 356-362)
CreatePartition(w) ==
    /\ inv[w].pc = "create"
    /\ \E fault \in FaultChoices :
         LET st == inv[w]
             pk == PartitionKey(st.loc.table_name, st.loc.part.billing_period)
             res == IF fault THEN "error"
                    ELSE IF pk \in DOMAIN partitions THEN "already_exists"
                    ELSE "ok"
             logged == Log(st, [op |-> "create_partition", key |-> pk,
                                res |-> res,
                                input |-> st.loc.partition_input])
         IN  /\ Charge(fault)
             /\ partitions' =
                  IF res = "ok"
                  THEN partitions @@ (pk :> st.loc.partition_input)
                  ELSE partitions
             /\ SetInv(w, AfterCreate(logged, res))
    /\ UNCHANGED <<dest, table, started, sweep, offered, probe>>

(***************************************************************************)
(* The bootstrap script.                                                   *)
(***************************************************************************)
\* index (from 1) of the first segment that is a billing period, or 0
RECURSIVE FirstPeriodFull(_, _)
FirstPeriodFull(parts, i) ==
    IF i > Len(parts) THEN 0
    ELSE IF FullMatchBillingPeriod(parts[i]) THEN i
    ELSE FirstPeriodFull(parts, i + 1)

\* what the loop body of find_partitions (lines 70-89) does with one key
ClassifyForSweep(key) ==
    LET parts == Split(key, Slash)
        j == FirstPeriodFull(parts, 1)
    IN  IF j = 0 THEN [kind |-> "none", key |-> key]
        ELSE IF j + 1 <= Len(parts) /\ FullMatchAssembly(parts[j + 1])
        THEN [kind |-> "versioned", key |-> key, billing_period |-> parts[j],
              assembly_id |-> parts[j + 1],
              path |-> Join(SubSeq(parts, 1, j + 1), Slash)]
        ELSE IF EndsWith(key, CsvGz)
        THEN [kind |-> "flat", key |-> key, billing_period |-> parts[j],
              path |-> Join(SubSeq(parts, 1, j), Slash)]
        ELSE [kind |-> "none", key |-> key]

\* the greatest string of a non-empty set
MaxStr(S) == CHOOSE x \in S : \A y \in S : ~StrLess(x, y)

\* the strings of a set in ascending order: sorted(S)
RECURSIVE SortedSeq(_)
SortedSeq(S) ==
    IF S = {} THEN <<>>
    ELSE LET m == CHOOSE x \in S : \A y \in S : ~StrLess(y, x)
         IN  <<m>> \o SortedSeq(S \ {m})

FlatLabel == <<"f","l","a","t">>

\* find_partitions(prefix): billing period -> <<label, partition_path>>.
\* The paginator lists every key under the prefix in key order; of the
\* assemblies of a period the last of sorted(..., key=assembly_id) wins, of
\* the flat paths the one of the last key listed.
find_partitions(objects, prefix) ==
    LET seen == {ClassifyForSweep(k) : k \in {x \in objects :
                                                StartsWith(x, prefix)}}
        versioned(bp) == {c \in seen : c.kind = "versioned"
                                       /\ c.billing_period = bp}
        flat(bp) == {c \in seen : c.kind = "flat" /\ c.billing_period = bp}
        all_periods == {c.billing_period : c \in {x \in seen : x.kind # "none"}}
        latest(bp) ==
            LET latest_id == MaxStr({c.assembly_id : c \in versioned(bp)})
                latest_all == {c \in versioned(bp) : c.assembly_id = latest_id}
                paths == {c.path : c \in latest_all}
                last == MaxStr({c.key : c \in latest_all})
            IN  <<latest_id,
                  IF Cardinality(paths) = 1 THEN CHOOSE q \in paths : TRUE
                  ELSE ClassifyForSweep(last).path>>
    IN  [bp \in all_periods |->
            IF versioned(bp) # {} THEN latest(bp)
            ELSE <<FlatLabel,
                   ClassifyForSweep(MaxStr({c.key : c \in flat(bp)})).path>>]

\* main, lines 139-149: the calls of create_or_update_partition to make
SweepPlan(objects) ==
    LET prefix == ACCOUNTS[1][1]
        table_name == ACCOUNTS[1][2]
        found == find_partitions(objects, prefix)
        periods == SortedSeq(DOMAIN found)
    IN  [i \in 1..Len(periods) |->
            [table_name |-> table_name,
             billing_period |-> periods[i],
             label |-> found[periods[i]][1],
             location |-> S3Uri(BUCKET, found[periods[i]][2]) \o <<Slash>>]]

\* main starts: find_partitions lists the bucket (lines 62-68; the buckets
\* here hold fewer keys than one page of the paginator, so the listing is
\* one call).  main has no try: a listing that fails ends the script.
SweepFind ==
    /\ sweep.pc = "start"
    /\ \E fault \in FaultChoices :
         LET plan == SweepPlan(dest)
         IN  /\ Charge(fault)
             /\ sweep' = [pc |-> IF fault THEN "crashed"
                                 ELSE IF plan = <<>> THEN "finished"
                                 ELSE "get_table",
                          todo |-> IF fault THEN <<>> ELSE plan,
                          calls |-> <<>>,
                          partition_input |-> [Values |-> <<>>]]
    /\ UNCHANGED <<dest, table, partitions, inv, started, offered, probe>>

SweepNext(sw) ==
    IF Len(sw.todo) > 1
    THEN [sw EXCEPT !.pc = "get_table", !.todo = Tail(@)]
    ELSE [sw EXCEPT !.pc = "finished", !.todo = <<>>]

\* create_or_update_partition, lines 107-114
SweepGetTable ==
    /\ sweep.pc = "get_table"
    /\ \E fault \in FaultChoices :
         LET job == Head(sweep.todo)
         IN  /\ Charge(fault)
             /\ sweep' = IF fault THEN [sweep EXCEPT !.pc = "crashed"]
                         ELSE [sweep EXCEPT
                                 !.pc = "update",
                                 !.partition_input =
                                     PartitionInput(table, job.billing_period,
                                                    job.location)]
    /\ UNCHANGED <<dest, table, partitions, inv, started, offered, probe>>

\* create_or_update_partition, lines 116-124
SweepUpdate ==
    /\ sweep.pc = "update"
    /\ \E fault \in FaultChoices :
         LET job == Head(sweep.todo)
             pk == PartitionKey(job.table_name, job.billing_period)
             res == IF fault THEN "error"
                    ELSE IF pk \in DOMAIN partitions THEN "ok"
                    ELSE "not_found"
             logged == [sweep EXCEPT !.calls = Append(@,
                           [op |-> "update_partition", key |-> pk,
                            res |-> res, input |-> sweep.partition_input])]
         IN  /\ Charge(fault)
             /\ partitions' =
                  IF res = "ok"
                  THEN [partitions EXCEPT ![pk] = sweep.partition_input]
                  ELSE partitions
             /\ sweep' = CASE res = "ok" -> SweepNext(logged)
                           [] res = "not_found" ->
                                [logged EXCEPT !.pc = "create"]
                           [] res = "error" ->
                                [logged EXCEPT !.pc = "crashed"]
    /\ UNCHANGED <<dest, table, inv, started, offered, probe>>

\* create_or_update_partition, lines 124-130
SweepCreate ==
    /\ sweep.pc = "create"
    /\ \E fault \in FaultChoices :
         LET job == Head(sweep.todo)
             pk == PartitionKey(job.table_name, job.billing_period)
             res == IF fault THEN "error"
                    ELSE IF pk \in DOMAIN partitions THEN "already_exists"
                    ELSE "ok"
             logged == [sweep EXCEPT !.calls = Append(@,
                           [op |-> "create_partition", key |-> pk,
                            res |-> res, input |-> sweep.partition_input])]
         IN  /\ Charge(fault)
             /\ partitions' =
                  IF res = "ok"
                  THEN partitions @@ (pk :> sweep.partition_input)
                  ELSE partitions
             /\ sweep' = IF res = "ok" THEN SweepNext(logged)
                         ELSE [logged EXCEPT !.pc = "crashed"]
    /\ UNCHANGED <<dest, table, inv, started, offered, probe>>

TableV2 ==
    [Name |-> "acct_table",
     StorageDescriptor |-> [Location |-> TableLocation, Columns |-> "v2"]]

NoPartitions == [pk \in {} |-> [Values |-> <<>>]]

SweepOff ==
    [pc |-> "off", todo |-> <<>>, calls |-> <<>>,
     partition_input |-> [Values |-> <<>>]]

\* the events of the report deliveries
ReportEvents == {e \in 1..Len(Events) : Events[e] # ScenarioA}

ProbeOff == [pc |-> "off"]

\* The Lambda starts on an empty destination bucket and an empty catalog;
\* the bootstrap script is not run.
Init ==
    /\ dest = {}
    /\ table = TableV2
    /\ partitions = NoPartitions
    /\ inv = [w \in Workers |-> Idle]
    /\ started = 0
    /\ faults = 0
    /\ sweep = SweepOff
    /\ offered = ReportEvents
    /\ probe = ProbeOff

WorkerNext(w) ==
    \/ \E e \in 1..Len(Events) : Invoke(w, e)
    \/ Loop(w)
    \/ CopyPlain(w)
    \/ GetManifest(w)
    \/ HeadObject(w)
    \/ CopyDataFile(w)
    \/ ListAssembly(w)
    \/ GetTable(w)
    \/ UpdatePartition(w)
    \/ CreatePartition(w)

Next == \E w \in Workers : WorkerNext(w)

Spec == Init /\ [][Next]_vars

(***************************************************************************)
(* The destination bucket and the catalog already hold earlier reports     *)
(* (the situation the bootstrap script is written for); the script runs    *)
(* once while one Lambda worker handles events.                            *)
(***************************************************************************)
BP2 == <<"2","0","2","4","0","2","0","1","-","2","0","2","4","0","3","0","1">>

\* the destination key of a key of the source bucket
DK(source_key) ==
    calculate_destination_key(source_key, PREFIX_MAPPING[SourceBucket])

\* n objects of the A2 folder that are no data files and sort before them
Fillers(n) == {DK(Path3(BP1, A2, <<Chr(64 + i)>>)) : i \in 1..n}

ExistingBuckets ==
    { {},
      {DK(K_A1_P1), DK(K_A2_M)},
      Fillers(MaxKeys) \cup {DK(K_A2_P1)},
      Fillers(MaxKeys - 1) \cup {DK(K_A2_P1)},
      {DK(K_A1_P1), DK(Path2(BP2, P1))} }

\* a partition registered for the overwrite layout, when the table had
\* other columns
LegacyPartitions ==
    (PartitionKey("acct_table", BP1) :>
        [Values |-> <<BP1>>,
         StorageDescriptor |->
             [Location |-> S3Uri(BUCKET, DK(BP1)) \o <<Slash>>,
              Columns |-> "v1"]])

InitExisting ==
    /\ dest \in ExistingBuckets
    /\ table = TableV2
    /\ partitions \in {NoPartitions, LegacyPartitions}
    /\ inv = [w \in Workers |-> Idle]
    /\ started = 0
    /\ faults = 0
    /\ sweep = [SweepOff EXCEPT !.pc = "start"]
    /\ offered = ReportEvents
    /\ probe = ProbeOff

NextExisting ==
    \/ WorkerNext(1)
    \/ SweepFind
    \/ SweepGetTable
    \/ SweepUpdate
    \/ SweepCreate

SpecExisting == InitExisting /\ [][NextExisting]_vars

(***************************************************************************)
(* The key functions alone: calculate_destination_key, the classifiers and *)
(* the path parsing of update_athena_partition, applied in the order of    *)
(* process_record to one key and one prefix rule.  Keys are the paths of   *)
(* at most MaxSegments segments.                                           *)
(***************************************************************************)
\* an assembly id one of whose digits is no ASCII digit (U+FF11, fullwidth
\* digit one), as '%EF%BC%91' of an event key decodes to
A2Wide == [A2 EXCEPT ![8] = Chr(65297)]

Segments == {<<>>, <<"x">>, BP1, A2, A2Wide, P1, RManifest}

MaxSegments == 4

ProbeKeys ==
    {Join(q, Slash) : q \in UNION {[1..n -> Segments] : n \in 1..MaxSegments}}

ProbeRules ==
    {[source_prefix |-> <<>>, destination_prefix |-> <<>>],
     [source_prefix |-> <<>>, destination_prefix |-> AcctPrefix],
     [source_prefix |-> <<"x">>, destination_prefix |-> <<"a","c","c","t">>]}

InitPure ==
    /\ dest = {}
    /\ table = TableV2
    /\ partitions = NoPartitions
    /\ inv = [w \in Workers |-> Idle]
    /\ started = 0
    /\ faults = 0
    /\ sweep = SweepOff
    /\ offered = {}
    /\ probe \in {[pc |-> "input", source_key |-> k, prefix_config |-> r] :
                    k \in ProbeKeys, r \in ProbeRules}

\* process_record, line 104
MapKey ==
    /\ probe.pc = "input"
    /\ probe' = [pc |-> "mapped", source_key |-> probe.source_key,
                 prefix_config |-> probe.prefix_config,
                 destination_key |->
                     calculate_destination_key(probe.source_key,
                                               probe.prefix_config)]
    /\ UNCHANGED <<dest, table, partitions, inv, started, faults, sweep,
                   offered>>

\* process_record, lines 110 and 126-129
ClassifyKey ==
    /\ probe.pc = "mapped"
    /\ probe' = [pc |-> "classified", source_key |-> probe.source_key,
                 prefix_config |-> probe.prefix_config,
                 destination_key |-> probe.destination_key,
                 manifest |-> is_assembly_manifest(probe.destination_key),
                 data_file |-> is_assembly_data_file(probe.destination_key)]
    /\ UNCHANGED <<dest, table, partitions, inv, started, faults, sweep,
                   offered>>

\* update_athena_partition, lines 289-314, for a key process_record passes
ParseKey ==
    /\ probe.pc = "classified"
    /\ probe.manifest \/ probe.data_file
    /\ probe' = [pc |-> "parsed", source_key |-> probe.source_key,
                 prefix_config |-> probe.prefix_config,
                 destination_key |-> probe.destination_key,
                 manifest |-> probe.manifest,
                 data_file |-> probe.data_file,
                 table_name |-> resolve_table_name(probe.destination_key),
                 part |-> ParsePartitionKey(DESTINATION_BUCKET,
                                            probe.destination_key)]
    /\ UNCHANGED <<dest, table, partitions, inv, started, faults, sweep,
                   offered>>

NextPure == MapKey \/ ClassifyKey \/ ParseKey

SpecPure == InitPure /\ [][NextPure]_vars

(***************************************************************************)
(* Only the event of scenario A is delivered, to an empty bucket and       *)
(* catalog.                                                                *)
(***************************************************************************)
InitScenarioA ==
    /\ dest = {}
    /\ table = TableV2
    /\ partitions = NoPartitions
    /\ inv = [w \in Workers |-> Idle]
    /\ started = 0
    /\ faults = 0
    /\ sweep = SweepOff
    /\ offered = {e \in 1..Len(Events) : Events[e] = ScenarioA}
    /\ probe = ProbeOff

DataFileNext(w) ==
    \/ \E e \in 1..Len(Events) : Invoke(w, e)
    \/ Loop(w)
    \/ CopyPlain(w)
    \/ ListAssembly(w)
    \/ GetTable(w)
    \/ UpdatePartition(w)
    \/ CreatePartition(w)

NextScenarioA == \E w \in Workers : DataFileNext(w)

SpecScenarioA == InitScenarioA /\ [][NextScenarioA]_vars

(***************************************************************************)
(* One worker alone: the invocations follow one another.                   *)
(***************************************************************************)
NextSolo == WorkerNext(1)

SpecSolo == Init /\ [][NextSolo]_vars

(***************************************************************************)
(* Properties.                                                             *)
(***************************************************************************)
CallsOf(w) == inv[w].calls

InItem(w) == inv[w].pc \notin {"idle", "done"}

ItemOver(w) == inv[w].pc \in {"returned", "raised"}

CatalogCall(e) == e.op \in {"update_partition", "create_partition"}

GlueCall(e) == e.op \in {"get_table", "update_partition", "create_partition"}

CopyCall(e) == e.op \in {"copy_object", "head_object", "get_object"}

\* the data files the destination bucket holds under a folder prefix
DataFilesUnder(prefix) ==
    {k \in dest : StartsWith(k, prefix) /\ EndsWith(k, CsvGz)}

\* the folder prefix (key part) of a partition location of the bucket
LocationOf(prefix) == S3Uri(DESTINATION_BUCKET, prefix)

\* C1: every update_partition or create_partition call of a worker comes
\* after a successful listing made for the same item, later than all of the
\* item's copy, probe and manifest calls, whose prefix is the folder the
\* call points the partition at and which returned at least one .csv.gz
\* object of the destination bucket under that folder; and no partition of
\* the catalog points at a folder without a data file.
C1_CatalogWriteFollowsOwnListing ==
    /\ \A w \in Workers : \A i \in 1..Len(CallsOf(w)) :
         CatalogCall(CallsOf(w)[i]) =>
           \E j \in 1..(i - 1) :
             LET c == CallsOf(w)
             IN  /\ c[j].op = "list_objects_v2"
                 /\ c[j].res = "ok"
                 /\ c[j].data_files # {}
                 /\ c[j].data_files \subseteq DataFilesUnder(c[j].key)
                 /\ c[i].input.StorageDescriptor.Location = LocationOf(c[j].key)
                 /\ \A m \in 1..Len(c) : CopyCall(c[m]) => m < j
    /\ \A pk \in DOMAIN partitions :
         \E k \in dest :
           /\ EndsWith(k, CsvGz)
           /\ StartsWith(LocationOf(k),
                         partitions[pk].StorageDescriptor.Location)

\* C1 witness: a worker has written a partition after its listing
C1_Witness ==
    \E w \in Workers : \E i \in 1..Len(CallsOf(w)) :
        /\ CatalogCall(CallsOf(w)[i])
        /\ CallsOf(w)[i].res = "ok"
        /\ inv[w].pc = "returned"

\* the assembly folders (as parsed by update_athena_partition) of a billing
\* period that hold a data file at the destination
CompleteAssemblies(billing_period) ==
    {p.assembly_prefix :
       p \in {ParsePartitionKey(DESTINATION_BUCKET, k) :
                k \in {x \in dest : is_assembly_data_file(x)}
                       \cap {x \in dest :
                               ParsePartitionKey(DESTINATION_BUCKET, x).ok
                               /\ ParsePartitionKey(DESTINATION_BUCKET, x)
                                      .billing_period = billing_period}}}

Quiescent == \A w \in Workers : Free(w)

\* C2: once every event has been handled (no invocation is running), with no
\* service fault, the partition of a billing period points at the assembly
\* folder with the greatest AssemblyId among those holding a data file.
C2_PointsAtLatestCompleteAssembly ==
    (Quiescent /\ faults = 0) =>
        \A pk \in DOMAIN partitions :
            CompleteAssemblies(pk[2]) # {} =>
                partitions[pk].StorageDescriptor.Location =
                    LocationOf(MaxStr(CompleteAssemblies(pk[2])))

\* C3: when handler returns, every item of the batch was passed to
\* process_record and is recorded exactly once, as processed or as errored.
C3_EveryItemRecordedOnce ==
    \A w \in Workers :
        inv[w].pc = "done" =>
            /\ inv[w].item = ItemCount(Events[inv[w].event])
            /\ Len(inv[w].processed_files) + Len(inv[w].errors)
                 = ItemCount(Events[inv[w].event])

\* C4: a listing of the gate that succeeded found a data file if and only if
\* the destination bucket holds an object ending in .csv.gz under the
\* assembly folder prefix (stated of the state the listing leaves, where
\* the bucket is the one listed).
C4_GatePassesIffDataFileExists ==
    \A w \in Workers :
        LET c == CallsOf(w)
        IN  (c # <<>> /\ c[Len(c)].op = "list_objects_v2"
                      /\ c[Len(c)].res = "ok") =>
              ((c[Len(c)].data_files # {})
                 <=> (DataFilesUnder(c[Len(c)].key) # {}))

\* the folder prefixes of the bucket that are assembly folders of a billing
\* period (for the bootstrap script) and hold a data file
SweepCompleteAssemblies(billing_period) ==
    {c.path \o <<Slash>> :
       c \in {x \in {ClassifyForSweep(k) : k \in dest} :
                /\ x.kind = "versioned"
                /\ x.billing_period = billing_period
                /\ DataFilesUnder(x.path \o <<Slash>>) # {}}}

\* C5: every partition write of the bootstrap script points the billing
\* period at a folder that holds at least one .csv.gz object, and, when the
\* period has assembly folders holding data files, at the one with the
\* greatest AssemblyId among them.
C5_SweepRepointsToLatestDataFolder ==
    \A i \in 1..Len(sweep.calls) :
        LET e == sweep.calls[i]
            location == e.input.StorageDescriptor.Location
        IN  e.res = "ok" =>
              /\ \E k \in dest : /\ EndsWith(k, CsvGz)
                                 /\ StartsWith(LocationOf(k), location)
              /\ SweepCompleteAssemblies(e.key[2]) # {} =>
                   location =
                       LocationOf(MaxStr(SweepCompleteAssemblies(e.key[2])))

\* the item a worker is at is a manifest expansion whose manifest was read
\* and lists report keys
ExpandingManifest(w) ==
    /\ InItem(w)
    /\ inv[w].loc.source_key \in DOMAIN ReportKeys
    /\ \E i \in 1..Len(CallsOf(w)) :
         CallsOf(w)[i].op = "get_object" /\ CallsOf(w)[i].res = "ok"
    /\ is_assembly_manifest(inv[w].loc.destination_key)

\* the destination keys of the report keys of the manifest a worker expands
ReportDestKeys(w) ==
    LET rk == ReportKeys[inv[w].loc.source_key]
    IN  [i \in 1..Len(rk) |->
            calculate_destination_key(rk[i],
                                      PrefixConfigFor(inv[w].loc.source_bucket))]

SeqRange(q) == {q[i] : i \in 1..Len(q)}

\* C6: a copy a worker has just issued for an item whose destination key is
\* an assembly manifest has a report key of that manifest as source and that
\* key's mapped destination key as target, never the manifest (every call is
\* the latest call of its item in the state that follows it); and no
\* assembly manifest is ever an object of the destination bucket.
C6_ManifestNeverCopied ==
    /\ \A w \in Workers :
         LET c == CallsOf(w)
             e == c[Len(c)]
         IN  (c # <<>> /\ e.op = "copy_object"
              /\ is_assembly_manifest(inv[w].loc.destination_key)) =>
                   /\ e.src # inv[w].loc.source_key
                   /\ e.key # inv[w].loc.destination_key
                   /\ inv[w].loc.source_key \in DOMAIN ReportKeys
                   /\ \E r \in 1..Len(ReportKeys[inv[w].loc.source_key]) :
                        /\ e.src = ReportKeys[inv[w].loc.source_key][r]
                        /\ e.key = ReportDestKeys(w)[r]
    /\ \A k \in dest : ~is_assembly_manifest(k)

\* C6 witness: a manifest item has returned after copying a data file
C6_Witness ==
    \E w \in Workers :
        /\ inv[w].pc = "returned"
        /\ is_assembly_manifest(inv[w].loc.destination_key)
        /\ \E i \in 1..Len(CallsOf(w)) :
             CallsOf(w)[i].op = "copy_object" /\ CallsOf(w)[i].res = "ok"

\* C7: a successful listing of the gate that found no data file is the last
\* call of its item: no Glue call follows it, and the item returns its
\* result (it is not raised as an error).
C7_EmptyGateSkipsCatalog ==
    \A w \in Workers : \A j \in 1..Len(CallsOf(w)) :
        LET c == CallsOf(w)
        IN  (c[j].op = "list_objects_v2" /\ c[j].res = "ok"
             /\ c[j].data_files = {}) =>
              /\ j = Len(c)
              /\ inv[w].pc = "returned"
              /\ \A m \in 1..Len(c) : ~GlueCall(c[m])

\* C7 witness: a manifest item whose expansion copied nothing returned after
\* an empty listing, while a partition exists and keeps pointing elsewhere
C7_Witness ==
    \E w \in Workers :
        LET c == CallsOf(w)
        IN  /\ inv[w].pc = "returned"
            /\ is_assembly_manifest(inv[w].loc.destination_key)
            /\ inv[w].loc.copied = <<>>
            /\ c # <<>>
            /\ c[Len(c)].op = "list_objects_v2"
            /\ c[Len(c)].res = "ok"
            /\ c[Len(c)].data_files = {}
            /\ \E pk \in DOMAIN partitions :
                 /\ pk[2] = inv[w].loc.part.billing_period
                 /\ partitions[pk].StorageDescriptor.Location
                      # inv[w].loc.part.partition_location

\* the calls of a worker's item on one destination key
HeadOf(w, k) ==
    {i \in 1..Len(CallsOf(w)) :
       CallsOf(w)[i].op = "head_object" /\ CallsOf(w)[i].key = k}

CopyOf(w, k) ==
    {i \in 1..Len(CallsOf(w)) :
       CallsOf(w)[i].op = "copy_object" /\ CallsOf(w)[i].key = k}

SomeRes(w, idxs, results) == \E i \in idxs : CallsOf(w)[i].res \in results

\* C8: a manifest expansion that is over, and in which no probe died of a
\* transport error, has probed every report key, has attempted the copy of
\* every one whose probe did not find it, whatever became of the other
\* copies, lists in its result exactly the keys found present or copied, in
\* manifest order, and its item returned (it is not raised as an error).
C8_ExpansionToleratesCopyFailure ==
    \A w \in Workers :
        (ItemOver(w) /\ ExpandingManifest(w)
         /\ \A i \in 1..Len(CallsOf(w)) : CallsOf(w)[i].res # "transport") =>
          LET dk == ReportDestKeys(w)
              good(k) == \/ SomeRes(w, HeadOf(w, k), {"found"})
                         \/ SomeRes(w, CopyOf(w, k), {"ok"})
          IN  /\ inv[w].pc = "returned"
              /\ \A r \in 1..Len(dk) :
                   /\ HeadOf(w, dk[r]) # {}
                   /\ SomeRes(w, HeadOf(w, dk[r]), {"not_found", "client_error"})
                        => CopyOf(w, dk[r]) # {}
              /\ inv[w].loc.copied = SelectSeq(dk, good)
              /\ (inv[w].loc.copied # <<>>) =>
                   inv[w].result.copied_data_files = Len(inv[w].loc.copied)

\* C8 witness: the copy of one report key failed, a later one was copied, and
\* the item returned
C8_Witness ==
    \E w \in Workers :
        /\ inv[w].pc = "returned"
        /\ ExpandingManifest(w)
        /\ \E i, j \in 1..Len(CallsOf(w)) :
             /\ i < j
             /\ CallsOf(w)[i].op = "copy_object" /\ CallsOf(w)[i].res = "error"
             /\ CallsOf(w)[j].op = "copy_object" /\ CallsOf(w)[j].res = "ok"
        /\ Len(inv[w].loc.copied) = 1

\* every referenced file was at the destination when the manifest was read
AllPresentAtRead(w) ==
    \E i \in 1..Len(CallsOf(w)) :
        /\ CallsOf(w)[i].op = "get_object"
        /\ CallsOf(w)[i].res = "ok"
        /\ CallsOf(w)[i].present = SeqRange(ReportDestKeys(w))

\* C9: a manifest expansion that started when every referenced file was
\* already at the destination, and whose probes all answered, issues no copy
\* and returns every referenced destination key, in manifest order.
C9_ExpansionIdempotent ==
    \A w \in Workers :
        (ItemOver(w) /\ ExpandingManifest(w) /\ AllPresentAtRead(w)
         /\ \A i \in 1..Len(CallsOf(w)) :
              CallsOf(w)[i].res \notin {"transport", "client_error"}) =>
          /\ \A i \in 1..Len(CallsOf(w)) : CallsOf(w)[i].op # "copy_object"
          /\ inv[w].loc.copied = ReportDestKeys(w)
          /\ inv[w].pc = "returned"

\* C9 witness: a second invocation expanded the manifest with every file
\* present and returned them all
C9_Witness ==
    \E w \in Workers :
        /\ started = 2
        /\ inv[w].pc = "returned"
        /\ ExpandingManifest(w)
        /\ AllPresentAtRead(w)
        /\ inv[w].loc.copied = ReportDestKeys(w)
        /\ \A i \in 1..Len(CallsOf(w)) : CallsOf(w)[i].op # "copy_object"

\* a process made one more call in this step; the call it made
WorkerCalled(w) == Len(inv'[w].calls) = Len(inv[w].calls) + 1

WorkerCall(w) == inv'[w].calls[Len(inv'[w].calls)]

SweepCalled == Len(sweep'.calls) = Len(sweep.calls) + 1

SweepCall == sweep'.calls[Len(sweep'.calls)]

\* the entries of the catalog after a write of value v at key pk
Written(pk, v) ==
    [x \in DOMAIN partitions \cup {pk} |-> IF x = pk THEN v ELSE partitions[x]]

\* the partition a successful call e leaves, for a writer that computed
\* location for the billing period: the table's descriptor, location
\* substituted
WritesTableDescriptor(e, location) ==
    /\ CatalogCall(e)
    /\ e.res = "ok"
    /\ partitions' = Written(e.key, e.input)
    /\ e.input.Values = <<e.key[2]>>
    /\ e.input.StorageDescriptor =
         [table.StorageDescriptor EXCEPT !.Location = location]
    /\ (e.op = "create_partition") <=> (e.key \notin DOMAIN partitions)

\* C10 (as stated): a step that changes the catalog either adds a partition
\* for a billing period that had none, or changes only the location of an
\* existing partition, every other field of its descriptor staying as it was.
C10_UpdateKeepsOtherFields ==
    [][\A pk \in DOMAIN partitions :
         /\ pk \in DOMAIN partitions'
         /\ partitions'[pk].Values = partitions[pk].Values
         /\ partitions'[pk].StorageDescriptor =
              [partitions[pk].StorageDescriptor EXCEPT
                 !.Location = partitions'[pk].StorageDescriptor.Location]]_vars

\* C10 (amended): a step that changes the catalog is a successful
\* update_partition of an existing partition or a successful
\* create_partition of a missing one, by a worker or by the bootstrap script,
\* and it sets the whole partition to the table's current storage descriptor
\* with the writer's location substituted; no other partition changes.
C10_WriteReplacesDescriptorByTables ==
    [][partitions' # partitions =>
         \/ \E w \in Workers :
              /\ WorkerCalled(w)
              /\ WritesTableDescriptor(WorkerCall(w),
                                       inv[w].loc.part.partition_location)
         \/ /\ SweepCalled
            /\ WritesTableDescriptor(SweepCall,
                                     Head(sweep.todo).location)]_vars

\* C10 witness: before any event was handled, the bootstrap script updated a
\* partition that existed, and the partition now has the table's columns and
\* the location the script computed
C10_Witness ==
    /\ started = 0
    /\ \E i \in 1..Len(sweep.calls) :
         LET e == sweep.calls[i]
         IN  /\ e.op = "update_partition"
             /\ e.res = "ok"
             /\ partitions[e.key] = e.input
             /\ partitions[e.key].StorageDescriptor.Columns
                  = table.StorageDescriptor.Columns
             /\ partitions[e.key].StorageDescriptor.Location
                  # LegacyPartitions[e.key].StorageDescriptor.Location

\* C11: a worker calls create_partition only right after its update_partition
\* of the same partition answered "not found"; a get_table or update_partition
\* call that fails otherwise writes no partition and is the last call of the
\* repoint (the item returns with no create attempted); likewise for the
\* bootstrap script, which stops at the failure.
C11_CreateOnlyAfterNotFound ==
    [][/\ \A w \in Workers :
            (WorkerCalled(w) /\ GlueCall(WorkerCall(w))) =>
              LET e == WorkerCall(w)
                  before == inv[w].calls
              IN  /\ e.op = "create_partition" =>
                        /\ before # <<>>
                        /\ before[Len(before)].op = "update_partition"
                        /\ before[Len(before)].res = "not_found"
                        /\ before[Len(before)].key = e.key
                  /\ (e.op \in {"get_table", "update_partition"}
                      /\ e.res = "error") =>
                        /\ partitions' = partitions
                        /\ inv'[w].pc = "returned"
       /\ SweepCalled =>
            LET e == SweepCall
                before == sweep.calls
            IN  /\ e.op = "create_partition" =>
                      /\ before # <<>>
                      /\ before[Len(before)].op = "update_partition"
                      /\ before[Len(before)].res = "not_found"
                      /\ before[Len(before)].key = e.key
                /\ e.res = "error" =>
                      /\ partitions' = partitions
                      /\ sweep'.pc = "crashed"
       /\ (sweep.pc = "get_table" /\ sweep'.pc = "crashed") =>
            /\ partitions' = partitions
            /\ sweep'.calls = sweep.calls]_vars

\* C11 witness: the update_partition of a worker failed with another error
\* than "not found", the item returned and no partition exists for the period
C11_Witness ==
    /\ \E w \in Workers :
         LET c == CallsOf(w)
         IN  /\ c # <<>>
             /\ c[Len(c)].op = "update_partition"
             /\ c[Len(c)].res = "error"
             /\ inv[w].pc = "returned"
             /\ c[Len(c)].key \notin DOMAIN partitions

\* a call of the partition update that ended with an exception
PartitionUpdateFailed(e) ==
    /\ e.op \in {"list_objects_v2", "get_table", "update_partition",
                 "create_partition"}
    /\ e.res \in {"error", "already_exists"}

\* C12: when a call of the partition update fails, it is the last call of the
\* item, every copy call of the item was made before the partition update
\* began, what was copied is in the destination bucket, and process_record
\* returns its result (the item is appended to the processed files).
C12_PartitionFailureKeepsCopyOutcome ==
    \A w \in Workers :
        LET c == CallsOf(w)
            dk == inv[w].loc.destination_key
        IN  \A i \in 1..Len(c) :
              PartitionUpdateFailed(c[i]) =>
                /\ i = Len(c)
                /\ inv[w].pc = "returned"
                /\ inv[w].result.destination = S3Uri(DESTINATION_BUCKET, dk)
                /\ \E m \in 1..Len(c) : CopyCall(c[m])
                /\ \A m, n \in 1..Len(c) :
                     (CopyCall(c[m])
                      /\ (c[n].op = "list_objects_v2" \/ GlueCall(c[n])))
                        => m < n
                /\ \A m \in 1..Len(inv[w].loc.copied) :
                     inv[w].loc.copied[m] \in dest
                /\ ~is_assembly_manifest(dk) =>
                     /\ c[1].op = "copy_object" /\ c[1].res = "ok"
                     /\ dk \in dest

\* C12 witness: the listing of the gate failed after the file was copied, and
\* the item returned
C12_Witness ==
    \E w \in Workers :
        LET c == CallsOf(w)
        IN  /\ Len(c) = 2
            /\ c[1].op = "copy_object" /\ c[1].res = "ok"
            /\ c[2].op = "list_objects_v2" /\ c[2].res = "error"
            /\ inv[w].pc = "returned"
            /\ inv[w].loc.destination_key \in dest

\* the string holds two separators in a row
HasDoubledSlash(s) ==
    \E i \in 1..(Len(s) - 1) : s[i] = Slash /\ s[i + 1] = Slash

\* C13: the destination key begins with a separator only when it is the
\* source key itself, unchanged, and holds a doubled separator only when the
\* source key or the destination prefix already held one.
C13_NoLeadingOrDoubledSeparator ==
    probe.pc = "mapped" =>
        /\ StartsWith(probe.destination_key, <<Slash>>) =>
             probe.destination_key = probe.source_key
        /\ HasDoubledSlash(probe.destination_key) =>
             \/ HasDoubledSlash(probe.source_key)
             \/ HasDoubledSlash(probe.prefix_config.destination_prefix)

\* the item of scenario A has returned and none of its calls failed
ScenarioADone(w) ==
    /\ inv[w].pc = "returned"
    /\ Events[inv[w].event] = ScenarioA
    /\ \A i \in 1..Len(CallsOf(w)) : CallsOf(w)[i].res \in {"ok", "not_found"}

\* what scenario A leaves for a destination key dk: the file copied to dk,
\* the gate passed on it, and the partition of the billing period written by
\* the last call to point at the folder .../20240115T120000Z/ of dk
ScenarioAOutcome(w, dk) ==
    LET c == CallsOf(w)
        folder == SubSeq(dk, 1, Len(dk) - Len(Part1))
    IN  /\ inv[w].loc.destination_key = dk
        /\ c[1].op = "copy_object" /\ c[1].src = K_Acct_A2_Part1
        /\ c[1].key = dk
        /\ dk \in dest
        /\ c[2].op = "list_objects_v2" /\ dk \in c[2].data_files
        /\ CatalogCall(c[Len(c)])
        /\ c[Len(c)].res = "ok"
        /\ c[Len(c)].input.Values = <<BP1>>
        /\ c[Len(c)].input.StorageDescriptor.Location = LocationOf(folder)
        /\ EndsWith(folder, <<Slash>> \o A2 \o <<Slash>>)
        /\ \E pk \in DOMAIN partitions :
             /\ pk[2] = BP1
             /\ partitions[pk].StorageDescriptor.Location = LocationOf(folder)

\* C14 (as stated): scenario A yields the destination key
\* acct/20240101-20240201/20240115T120000Z/part-1.csv.gz, the file copied to
\* it, the gate passed and the partition of 20240101-20240201 pointing at the
\* folder .../20240115T120000Z/.
C14_ScenarioAKeepsKey ==
    \A w \in Workers :
        ScenarioADone(w) => ScenarioAOutcome(w, K_Acct_A2_Part1)

\* C14 (amended): scenario A yields the destination key
\* acct/acct/20240101-20240201/20240115T120000Z/part-1.csv.gz (the destination
\* prefix joined to the whole source key), the file copied to it, the gate
\* passed and the partition of 20240101-20240201 pointing at the folder
\* .../20240115T120000Z/ of that key.
C14_ScenarioAPrependsPrefix ==
    \A w \in Workers :
        ScenarioADone(w) =>
            ScenarioAOutcome(w, AcctPrefix \o K_Acct_A2_Part1)

\* C14 witness: the item of scenario A returned after creating the partition
C14_Witness ==
    \E w \in Workers :
        /\ ScenarioADone(w)
        /\ CallsOf(w)[Len(CallsOf(w))].op = "create_partition"
        /\ AcctPrefix \o K_Acct_A2_Part1 \in dest

\* a manifest directly under a billing period folder
TopLevelManifest(key) ==
    /\ EndsWith(key, ManifestJson)
    /\ LET parts == Split(key, Slash)
       IN  /\ Len(parts) >= 2
           /\ FullMatchBillingPeriod(parts[Len(parts) - 1])

\* C15: an item whose destination key is a manifest directly under a billing
\* period folder is classified as neither assembly manifest nor assembly
\* data file; its only call is the copy of the object to its destination
\* key (no manifest read, no listing, no catalog call), and when the copy
\* succeeds the object is in the destination bucket and the item returns.
C15_TopLevelManifestCopiedOnly ==
    \A w \in Workers :
        LET c == CallsOf(w)
            dk == inv[w].loc.destination_key
        IN  (c # <<>> /\ TopLevelManifest(dk)) =>
              /\ ~is_assembly_manifest(dk)
              /\ ~is_assembly_data_file(dk)
              /\ Len(c) = 1
              /\ c[1].op = "copy_object"
              /\ c[1].src = inv[w].loc.source_key
              /\ c[1].key = dk
              /\ c[1].res = "ok" => (dk \in dest /\ inv[w].pc = "returned")

\* C15 witness: the top-level manifest was copied and its item returned
C15_Witness ==
    \E w \in Workers :
        /\ inv[w].pc = "returned"
        /\ TopLevelManifest(inv[w].loc.destination_key)
        /\ inv[w].loc.destination_key \in dest
        /\ Len(CallsOf(w)) = 1
        /\ partitions = NoPartitions

\* C16: no key is classified both as assembly manifest and as assembly data
\* file, and a manifest directly under a billing period folder is classified
\* as neither.
C16_ClassifiersExclusive ==
    probe.pc \in {"classified", "parsed"} =>
        /\ ~(probe.manifest /\ probe.data_file)
        /\ TopLevelManifest(probe.destination_key) =>
             (~probe.manifest /\ ~probe.data_file)

\* C16 witness: a manifest under a billing period folder, in a path long
\* enough for the classifiers to look at its parent folder, was classified
C16_Witness ==
    /\ probe.pc = "classified"
    /\ TopLevelManifest(probe.destination_key)
    /\ Len(Split(probe.destination_key, Slash)) >= 3
    /\ ~probe.manifest
    /\ ~probe.data_file

\* C17: the response of handler has status 200 exactly when no item raised
\* and 207 otherwise, its error count is the number of items whose
\* process_record raised, and when that number is not zero it carries that
\* many error descriptions.
C17_ResponseReportsEveryFailure ==
    \A w \in Workers :
        inv[w].pc = "done" =>
            LET r == inv[w].result
            IN  /\ r.statusCode = (IF inv[w].raised = 0 THEN 200 ELSE 207)
                /\ r.errors = inv[w].raised
                /\ r.processed = Len(r.files)
                /\ inv[w].raised > 0 =>
                     /\ "error_details" \in DOMAIN r
                     /\ Len(r.error_details) = inv[w].raised

\* C17 witness: a batch of two records ended with one item processed and one
\* item failed
C17_Witness ==
    \E w \in Workers :
        /\ inv[w].pc = "done"
        /\ inv[w].raised = 1
        /\ inv[w].result.processed = 1
        /\ inv[w].result.statusCode = 207

\* C18: a probe of a referenced file that fails otherwise than by "not
\* found" is followed by no copy of that file, the file is not in the result
\* of the expansion, and the other referenced files are still probed.
C18_ProbeFailureSkipsFile ==
    \A w \in Workers :
        LET c == CallsOf(w)
        IN  \A i \in 1..Len(c) :
              (c[i].op = "head_object"
               /\ c[i].res \in {"client_error", "transport"}) =>
                /\ CopyOf(w, c[i].key) = {}
                /\ c[i].key \notin SeqRange(inv[w].loc.copied)
                /\ ItemOver(w) =>
                     \A r \in 1..Len(ReportDestKeys(w)) :
                         HeadOf(w, ReportDestKeys(w)[r]) # {}

\* C19: for a key a classifier accepts and update_athena_partition parses,
\* the partition location is the parent folder of the key, that folder's
\* name is an AssemblyId, and the partition value is the segment right before
\* it, a billing period.
C19_LocationIsAssemblyFolderOfKey ==
    (probe.pc = "parsed" /\ probe.table_name # "" /\ probe.part.ok) =>
        LET parts == Split(probe.destination_key, Slash)
            n == Len(parts)
        IN  /\ n >= 3
            /\ probe.part.partition_location =
                 S3Uri(DESTINATION_BUCKET,
                       Join(SubSeq(parts, 1, n - 1), Slash)) \o <<Slash>>
            /\ FullMatchAssembly(parts[n - 1])
            /\ probe.part.billing_period = parts[n - 2]
            /\ FullMatchBillingPeriod(parts[n - 2])

\* the partition a worker tried to write in its item, and with what location
Attempted(w, pk) ==
    \E i \in 1..Len(CallsOf(w)) :
        CallsOf(w)[i].op = "update_partition" /\ CallsOf(w)[i].key = pk

AttemptedLocation(w) == inv[w].loc.partition_input.StorageDescriptor.Location

NoCallFailed(w) ==
    \A i \in 1..Len(CallsOf(w)) : CallsOf(w)[i].res # "error"

\* C20: when two invocations that overlap have both finished an item in which
\* they tried to write the partition of the same billing period, no service
\* call of theirs having failed otherwise than by the race, then exactly one
\* partition exists for that billing period, its location is the one that
\* one of the two attempted, and both items returned (neither is errored).
C20_ConcurrentRepointsLeaveOnePartition ==
    \A w1, w2 \in Workers :
        (w1 < w2 /\ ItemOver(w1) /\ ItemOver(w2)
         /\ inv[w1].loc.part.ok /\ inv[w2].loc.part.ok
         /\ NoCallFailed(w1) /\ NoCallFailed(w2)) =>
          LET pk == PartitionKey(inv[w1].loc.table_name,
                                 inv[w1].loc.part.billing_period)
          IN
            (Attempted(w1, pk) /\ Attempted(w2, pk)) =>
              /\ pk \in DOMAIN partitions
              /\ Cardinality({k \in DOMAIN partitions : k[2] = pk[2]}) = 1
              /\ partitions[pk].StorageDescriptor.Location
                   \in {AttemptedLocation(w1), AttemptedLocation(w2)}
              /\ inv[w1].pc = "returned"
              /\ inv[w2].pc = "returned"

\* C20 witness: two workers found no partition, one created it and the
\* create_partition of the other was refused; both returned, for different
\* assembly folders
C20_Witness ==
    \E w1, w2 \in Workers :
        LET c1 == CallsOf(w1)
            c2 == CallsOf(w2)
        IN  /\ inv[w1].pc = "returned" /\ inv[w2].pc = "returned"
            /\ c1 # <<>> /\ c2 # <<>>
            /\ c1[Len(c1)].op = "create_partition" /\ c1[Len(c1)].res = "ok"
            /\ c2[Len(c2)].op = "create_partition"
            /\ c2[Len(c2)].res = "already_exists"
            /\ c1[Len(c1)].key = c2[Len(c2)].key
            /\ AttemptedLocation(w1) # AttemptedLocation(w2)
            /\ partitions[c1[Len(c1)].key].StorageDescriptor.Location
                 = AttemptedLocation(w1)

====
